---- MODULE Spec2Model ----
(***************************************************************************)
(* Fractional octave filter banks of pyfar                                 *)
(* (src/pyfar/dsp/filter/fractional_octaves.py).                           *)
(*                                                                         *)
(* Number representation.  The code works on floats and every frequency    *)
(* is obtained from another one by a product with a power of               *)
(* G = 10^(3/10) or of 2.  A frequency f is therefore held by its          *)
(* logarithm, Lg(f) = 168000 * log10(f / 1 Hz), rounded to the nearest     *)
(* integer: a product of frequencies is a sum, a power is a multiple, a    *)
(* quotient f / g compared with 1 is the difference Lg(f) - Lg(g)          *)
(* compared with 0.  With 168000 units per decade Lg(G) = 50400 is exact   *)
(* and divisible by 2 * num_fractions for num_fractions up to 10, so the   *)
(* cut-off exponents 1/2/num_fractions are exact; Lg(2) = 50573 is         *)
(* rounded (50573.04).  Order comparisons of the frequencies that occur    *)
(* are the same in both representations.                                   *)
(*                                                                         *)
(* Python values.  An array is Arr(s) with s a sequence, None is NoneVal.  *)
(* An exception is the message it is raised with, "" when none is raised.  *)
(* A warning is a record [msg, upper].                                     *)
(*                                                                         *)
(* State.  op is the call that ran last ("idle" before any), args its      *)
(* arguments, raised/warned/calls what it raised, warned and called, ret   *)
(* the value fractional_octave_frequencies returned, bank the filter bank  *)
(* under construction or in use (self), other a second value a method of   *)
(* the bank returned (a copy, a dictionary, a decoded bank), result the    *)
(* plain value a method returned, prev the outcome of the call before.     *)
(*                                                                         *)
(* Specifications.  Spec: the function and the two constructors.           *)
(* BankSpec: the methods of a constructed bank.  LineSpec: the DFT lines   *)
(* and magnitude responses of the reconstructing design.  IoSpec: write    *)
(* and _remove_neighbored_duplicates of pyfar.io.                          *)
(***************************************************************************)
EXTENDS Integers, Sequences, FiniteSets, TLC

VARIABLES op, args, raised, warned, calls, ret, bank, other, result, prev

vars == <<op, args, raised, warned, calls, ret, bank, other, result, prev>>

---------------------------------------------------------------------------
(* Bounds of the model *)

\* num_fractions ranges over 1..MaxFractions
MaxFractions == 5
\* order ranges over 1..MaxOrder
MaxOrder == 3
\* the lists handed to _remove_neighbored_duplicates have up to MaxLen entries
MaxLen == 4

---------------------------------------------------------------------------
(* Floats *)

\* Lg of a frequency literal given in tenths of Hz (31.5 Hz is 315).
Lg(dHz) ==
    CASE dHz = 200    -> 218573 [] dHz = 250    -> 234854
      [] dHz = 315    -> 251716 [] dHz = 400    -> 269146
      [] dHz = 500    -> 285427 [] dHz = 630    -> 302289
      [] dHz = 800    -> 319719 [] dHz = 1000   -> 336000
      [] dHz = 1250   -> 352281 [] dHz = 1600   -> 370292
      [] dHz = 2000   -> 386573 [] dHz = 2500   -> 402854
      [] dHz = 3150   -> 419716 [] dHz = 4000   -> 437146
      [] dHz = 5000   -> 453427 [] dHz = 6300   -> 470289
      [] dHz = 8000   -> 487719 [] dHz = 10000  -> 504000
      [] dHz = 12500  -> 520281 [] dHz = 16000  -> 538292
      [] dHz = 20000  -> 554573 [] dHz = 25000  -> 570854
      [] dHz = 31500  -> 587716 [] dHz = 40000  -> 605146
      [] dHz = 50000  -> 621427 [] dHz = 63000  -> 638289
      [] dHz = 80000  -> 655719 [] dHz = 100000 -> 672000
      [] dHz = 125000 -> 688281 [] dHz = 160000 -> 706292
      [] dHz = 200000 -> 722573 [] dHz = 441000 -> 780266
      [] dHz = 480000 -> 786449 [] dHz = 250000 -> 738854

\* Lg(10**(3/10))
octave_ratio == 50400
\* Lg(1e3)
reference_freq == 504000
ref_freq == 504000
\* Lg(2): np.log2(x) is Lg(x) / Log2
Log2 == 50573

\* np.around(a / b) for b > 0: to the nearest integer, a tie to the even one
Round(a, b) ==
    LET q == a \div b
        r == a % b
    IN  IF 2 * r < b THEN q
        ELSE IF 2 * r > b THEN q + 1
        ELSE IF q % 2 = 0 THEN q ELSE q + 1

NoBank == [cls |-> "None"]

NoneVal == [none |-> TRUE, v |-> <<>>]
Arr(s) == [none |-> FALSE, v |-> s]

\* arr[mask] for a boolean mask of the same length: the elements at the
\* positions where mask is True, in their order
Kept(mask) == {i \in 1..Len(mask) : mask[i]}
Nth(S, k) == CHOOSE i \in S : Cardinality({j \in S : j < i}) = k - 1
Masked(arr, mask) ==
    [k \in 1..Cardinality(Kept(mask)) |-> arr[Nth(Kept(mask), k)]]

\* np.arange(lo, hi + 1)
Arange(lo, hi) == [i \in 1..(hi - lo + 1) |-> lo + i - 1]

---------------------------------------------------------------------------
(* fractional_octave_frequencies and its helpers *)

NominalOctaves ==
    <<Lg(315), Lg(630), Lg(1250), Lg(2500), Lg(5000), Lg(10000),
      Lg(20000), Lg(40000), Lg(80000), Lg(160000)>>

NominalThirds ==
    <<Lg(250), Lg(315), Lg(400), Lg(500), Lg(630), Lg(800), Lg(1000),
      Lg(1250), Lg(1600), Lg(2000), Lg(2500), Lg(3150), Lg(4000),
      Lg(5000), Lg(6300), Lg(8000), Lg(10000), Lg(12500), Lg(16000),
      Lg(20000), Lg(25000), Lg(31500), Lg(40000), Lg(50000), Lg(63000),
      Lg(80000), Lg(100000), Lg(125000), Lg(160000), Lg(200000)>>

\* exact = reference_freq * octave_ratio**exponent, one band
iec_exact(n, num_fractions) ==
    IF num_fractions % 2 # 0
    THEN LET indices == Round(num_fractions * (n - reference_freq),
                              octave_ratio)
         IN  reference_freq + (indices * octave_ratio) \div num_fractions
    ELSE LET twice == Round(2 * num_fractions * (n - reference_freq)
                            - octave_ratio, octave_ratio)
         IN  reference_freq
             + ((twice + 1) * octave_ratio) \div (2 * num_fractions)

\* exact = reference_freq * octave_ratio**exponent, for every band of nominal
iec_exact_all(nominal, num_fractions) ==
    [nominal |-> nominal,
     exact |-> [i \in 1..Len(nominal) |->
                   iec_exact(nominal[i], num_fractions)]]

center_frequencies_fractional_octaves_iec(nominal, num_fractions) ==
    iec_exact_all(IF num_fractions = 1 THEN NominalOctaves
                  ELSE IF num_fractions = 3 THEN NominalThirds
                  ELSE nominal,
                  num_fractions)

\* faulty variant of exact_center_frequencies_fractional_octaves: the index
\* Nmax is left out (np.arange(-Nmin, Nmax))
exact_center_frequencies_without_last(num_fractions, freq_range) ==
    LET Nmax == Round(num_fractions * (freq_range[2] - ref_freq), Log2)
        Nmin == Round(num_fractions * (ref_freq - freq_range[1]), Log2)
        indices == Arange(-Nmin, Nmax - 1)
    IN  [i \in 1..Len(indices) |->
            ref_freq + Round(indices[i] * Log2, num_fractions)]

\* faulty variant of exact_center_frequencies_fractional_octaves: one index
\* above Nmax is added (np.arange(-Nmin, Nmax + 2))
exact_center_frequencies_with_next(num_fractions, freq_range) ==
    LET Nmax == Round(num_fractions * (freq_range[2] - ref_freq), Log2)
        Nmin == Round(num_fractions * (ref_freq - freq_range[1]), Log2)
        indices == Arange(-Nmin, Nmax + 1)
    IN  [i \in 1..Len(indices) |->
            ref_freq + Round(indices[i] * Log2, num_fractions)]

exact_center_frequencies_fractional_octaves(num_fractions, freq_range) ==
    LET Nmax == Round(num_fractions * (freq_range[2] - ref_freq), Log2)
        Nmin == Round(num_fractions * (ref_freq - freq_range[1]), Log2)
        indices == Arange(-Nmin, Nmax)
    IN  [i \in 1..Len(indices) |->
            ref_freq + Round(indices[i] * Log2, num_fractions)]

\* faulty variant of upper_cutoff: the exponent is 1/num_fractions
upper_cutoff_full(exact, num_fractions) ==
    [i \in 1..Len(exact) |-> exact[i] + octave_ratio \div num_fractions]

\* the cut-off frequencies of the exact center frequencies
upper_cutoff(exact, num_fractions) ==
    [i \in 1..Len(exact) |-> exact[i] + octave_ratio \div (2 * num_fractions)]

\* faulty variant of lower_cutoff: the exponent is -1/num_fractions
lower_cutoff_full(exact, num_fractions) ==
    [i \in 1..Len(exact) |-> exact[i] - octave_ratio \div num_fractions]

lower_cutoff(exact, num_fractions) ==
    [i \in 1..Len(exact) |-> exact[i] - octave_ratio \div (2 * num_fractions)]

NoFrequencies ==
    [nominal |-> NoneVal, exact |-> <<>>, has_cutoff |-> FALSE,
     f_crit |-> <<<<>>, <<>>>>]

\* faulty variant of check_freq_range: equal limits are refused
check_freq_range_strict(f_lims) ==
    IF Len(f_lims) # 2
    THEN "You need to specify a lower and upper limit frequency."
    ELSE IF f_lims[1] >= f_lims[2]
    THEN "The second frequency needs to be higher than the first."
    ELSE ""

\* the check of freq_range: the message raised, "" when it passes
check_freq_range(f_lims) ==
    IF Len(f_lims) # 2
    THEN "You need to specify a lower and upper limit frequency."
    ELSE IF f_lims[1] > f_lims[2]
    THEN "The second frequency needs to be higher than the first."
    ELSE ""

\* faulty variant of nominal_init: an empty array in place of None
nominal_init_empty == Arr(<<>>)

\* nominal = None
nominal_init == NoneVal

\* faulty variant of range_mask: the lower limit itself is left out
range_mask_open(nominal, f_lims) ==
    [i \in 1..Len(nominal) |->
        nominal[i] > f_lims[1] /\ nominal[i] <= f_lims[2]]

\* (nominal >= f_lims[0]) & (nominal <= f_lims[1])
range_mask(nominal, f_lims) ==
    [i \in 1..Len(nominal) |->
        nominal[i] >= f_lims[1] /\ nominal[i] <= f_lims[2]]

\* the return statements: (nominal, exact) or (nominal, exact, f_crit)
with_cutoff(nominal, exact, num_fractions, return_cutoff) ==
    [raised |-> "",
     val |-> [nominal |-> nominal, exact |-> exact,
              has_cutoff |-> return_cutoff,
              f_crit |-> IF return_cutoff
                         THEN <<lower_cutoff(exact, num_fractions),
                                upper_cutoff(exact, num_fractions)>>
                         ELSE <<<<>>, <<>>>>]]

\* faulty variant of apply_mask: the mask is applied to nominal only
apply_mask_nominal(iec, mask, num_fractions, return_cutoff) ==
    with_cutoff(Arr(Masked(iec.nominal, mask)), iec.exact, num_fractions,
                return_cutoff)

\* nominal = nominal[mask]; exact = exact[mask]
apply_mask(iec, mask, num_fractions, return_cutoff) ==
    with_cutoff(Arr(Masked(iec.nominal, mask)), Masked(iec.exact, mask),
                num_fractions, return_cutoff)

\* the branch of num_fractions in [1, 3], from the table of the standard on
iec_branch(iec, f_lims, num_fractions, return_cutoff) ==
    apply_mask(iec, range_mask(iec.nominal, f_lims), num_fractions,
               return_cutoff)

\* the function after the check of freq_range
frequencies_of(num_fractions, f_lims, return_cutoff) ==
    IF num_fractions \in {1, 3}
    THEN iec_branch(center_frequencies_fractional_octaves_iec(
                        nominal_init, num_fractions),
                    f_lims, num_fractions, return_cutoff)
    ELSE with_cutoff(nominal_init,
                     exact_center_frequencies_fractional_octaves(
                         num_fractions, f_lims),
                     num_fractions, return_cutoff)

\* the result is [raised, val]; val is (nominal, exact[, f_crit])
fractional_octave_frequencies(num_fractions, freq_range, return_cutoff) ==
    IF check_freq_range(freq_range) # ""
    THEN [raised |-> check_freq_range(freq_range), val |-> NoFrequencies]
    ELSE frequencies_of(num_fractions, freq_range, return_cutoff)

---------------------------------------------------------------------------
(* Collaborators: scipy.signal.butter and pyfar.classes.filter *)

\* sgn.butter(N, Wn, btype=btype, output='sos') of a digital filter.  Wn is
\* the sequence of critical frequencies, Nyquist being 1 (Lg 0); iirfilter
\* refuses every Wn outside 0 < Wn < 1.  A band-pass of order N has N
\* second order sections, a high-pass ceil(N / 2).
butter(N, Wn, btype) ==
    IF \E i \in 1..Len(Wn) : Wn[i] >= 0
    THEN [raised |-> "Digital filter critical frequencies must be 0 < Wn < 1",
          sos |-> [btype |-> btype, Wn |-> Wn, sections |-> 0,
                   identity |-> 0]]
    ELSE [raised |-> "",
          sos |-> [btype |-> btype, Wn |-> Wn,
                   sections |-> IF btype = "bandpass" THEN N
                                ELSE (N + 1) \div 2,
                   identity |-> 0]]

\* pf.classes.filter._extend_sos_coefficients(sos, order): sections
\* [1, 0, 0, 1, 0, 0] are appended until there are order sections
extend_sos_coefficients(sos, order) ==
    [sos EXCEPT !.identity = order - sos.sections]

\* the fields pft.FilterSOS.__init__ and pft.FilterFIR.__init__ store
Filter_init(coefficients, sampling_rate) ==
    [coefficients |-> coefficients, sampling_rate |-> sampling_rate]

---------------------------------------------------------------------------
(* FractionalOctaveBands *)

SkipWarning ==
    [msg |-> "Skipping bands above the Nyquist frequency", upper |-> 0]

HighpassWarning(upper) ==
    [msg |-> "The upper frequency limit is above the Nyquist frequency. Using a highpass filter instead of a bandpass",
     upper |-> upper]

\* Wns: one <<lower, upper>> per band, normalized to Nyquist = 1
normalize(freqs_lower, freqs_upper, sampling_rate) ==
    [i \in 1..Len(freqs_lower) |->
        <<freqs_lower[i] - sampling_rate + Log2,
          freqs_upper[i] - sampling_rate + Log2>>]

\* faulty variant of skip_mask: the upper edge decides, so that a band
\* reaching over Nyquist is dropped instead of becoming a high-pass
skip_mask_upper(Wns) == [i \in 1..Len(Wns) |-> Wns[i][2] >= 0]

\* faulty variant of skip_mask: it depends on the bank constructed before
skip_mask_sticky(Wns) ==
    [i \in 1..Len(Wns) |-> Wns[i][1] >= 0 \/ bank # NoBank]

\* mask_skip = Wns[:, 0] >= 1
skip_mask(Wns) == [i \in 1..Len(Wns) |-> Wns[i][1] >= 0]

\* faulty variant of design_band: a band whose upper edge is at Nyquist
\* becomes a high-pass as well
design_band_at_nyquist(Wn, upper, order) ==
    IF Wn[2] >= 0
    THEN LET sos_hp == butter(order, <<Wn[1]>>, "highpass")
         IN  [raised |-> sos_hp.raised,
              warned |-> <<HighpassWarning(upper)>>,
              sos_coeff |-> extend_sos_coefficients(sos_hp.sos, order)]
    ELSE LET bp == butter(order, Wn, "bandpass")
         IN  [raised |-> bp.raised, warned |-> <<>>, sos_coeff |-> bp.sos]

\* the body of the loop over the bands, for one band
design_band(Wn, upper, order) ==
    IF Wn[2] > 0
    THEN LET sos_hp == butter(order, <<Wn[1]>>, "highpass")
         IN  [raised |-> sos_hp.raised,
              warned |-> <<HighpassWarning(upper)>>,
              sos_coeff |-> extend_sos_coefficients(sos_hp.sos, order)]
    ELSE LET bp == butter(order, Wn, "bandpass")
         IN  [raised |-> bp.raised, warned |-> <<>>, sos_coeff |-> bp.sos]

\* the loop has run through the bands 1..last; it stopped at last when
\* that band raised
loop_result(bands, last) ==
    [raised |-> IF last = 0 THEN "" ELSE bands[last].raised,
     warned |-> Masked([i \in 1..Len(bands) |->
                           IF bands[i].warned = <<>> THEN SkipWarning
                           ELSE bands[i].warned[1]],
                       [i \in 1..Len(bands) |->
                           i <= last /\ bands[i].warned # <<>>]),
     sos |-> IF last # 0 /\ bands[last].raised # "" THEN <<>>
             ELSE [i \in 1..Len(bands) |-> bands[i].sos_coeff]]

\* the first band that raises ends the loop
loop_until(bands, failed) ==
    loop_result(bands, IF failed = {} THEN Len(bands) ELSE Nth(failed, 1))

\* faulty variant of design_loop: the upper cut-off frequency is taken from
\* the other end of freqs_upper
design_loop_reversed(Wns, freqs_upper, order) ==
    loop_until([idx \in 1..Len(Wns) |->
                   design_band(Wns[idx],
                               freqs_upper[Len(freqs_upper) - idx + 1],
                               order)],
               {idx \in 1..Len(Wns) :
                   design_band(Wns[idx],
                               freqs_upper[Len(freqs_upper) - idx + 1],
                               order).raised # ""})

\* for idx, Wn in enumerate(Wns)
design_loop(Wns, freqs_upper, order) ==
    loop_until([idx \in 1..Len(Wns) |->
                   design_band(Wns[idx], freqs_upper[idx], order)],
               {idx \in 1..Len(Wns) :
                   design_band(Wns[idx], freqs_upper[idx], order).raised
                       # ""})

\* the loop over the bands and the stacked coefficients
stack_bands(loop, warned0) ==
    [raised |-> loop.raised, warned |-> warned0 \o loop.warned,
     sos |-> loop.sos]

\* Wns = Wns[~mask_skip] with its warning, then the loop
design_kept(Wns, mask_skip, any_skip, freqs_upper, order) ==
    stack_bands(design_loop(IF any_skip
                            THEN Masked(Wns, [i \in 1..Len(mask_skip) |->
                                                 ~mask_skip[i]])
                            ELSE Wns,
                            freqs_upper, order),
                IF any_skip THEN <<SkipWarning>> ELSE <<>>)

\* if np.any(mask_skip)
design_masked(Wns, mask_skip, freqs_upper, order) ==
    design_kept(Wns, mask_skip, \E i \in 1..Len(mask_skip) : mask_skip[i],
                freqs_upper, order)

\* the normalized band edges and the bands to skip
design_bank(Wns, freqs_upper, order) ==
    design_masked(Wns, skip_mask(Wns), freqs_upper, order)

\* _get_coefficients from the result f of fractional_octave_frequencies on
coefficients_of(f, sampling_rate, order) ==
    IF f.raised # ""
    THEN [raised |-> f.raised, warned |-> <<>>, sos |-> <<>>]
    ELSE design_bank(normalize(f.val.f_crit[1], f.val.f_crit[2],
                               sampling_rate),
                     f.val.f_crit[2], order)

\* FractionalOctaveBands._get_coefficients: [raised, warned, sos]
FractionalOctaveBands_get_coefficients(sampling_rate, num_fractions, freq_range, order) ==
    coefficients_of(fractional_octave_frequencies(num_fractions, freq_range,
                                                  TRUE),
                    sampling_rate, order)

\* the fields of the object once f and the coefficients c are known
FractionalOctaveBands_fields(f, c, super, num_fractions, freq_range, order) ==
    IF f.raised # ""
    THEN [raised |-> f.raised, warned |-> <<>>,
          calls |-> <<"fractional_octave_frequencies">>,
          obj |-> NoBank]
    ELSE IF c.raised # ""
    THEN [raised |-> c.raised, warned |-> c.warned,
          calls |-> <<"fractional_octave_frequencies", "_get_coefficients">>,
          obj |-> NoBank]
    ELSE [raised |-> "", warned |-> c.warned,
          calls |-> <<"fractional_octave_frequencies", "_get_coefficients">>,
          obj |-> [cls |-> "FractionalOctaveBands",
                   num_fractions |-> num_fractions,
                   sampling_rate |-> super.sampling_rate,
                   freq_range |-> freq_range,
                   order |-> order,
                   norm_frequencies |-> f.val.nominal,
                   exact_frequencies |-> f.val.exact,
                   cutoff_frequencies |-> f.val.f_crit,
                   coefficients |-> super.coefficients,
                   comment |-> "Second order section 1/{num_fractions} fractional octave bandfilter of order {order}"]]

\* super().__init__(coefficients=coefficients, sampling_rate=sampling_rate)
FractionalOctaveBands_super(f, c, num_fractions, sampling_rate, freq_range, order) ==
    FractionalOctaveBands_fields(f, c, Filter_init(c.sos, sampling_rate),
                                 num_fractions, freq_range, order)

\* FractionalOctaveBands.__init__: [raised, warned, calls, obj]
FractionalOctaveBands_init(num_fractions, sampling_rate, freq_range, order) ==
    FractionalOctaveBands_super(
        fractional_octave_frequencies(num_fractions, freq_range, TRUE),
        FractionalOctaveBands_get_coefficients(sampling_rate, num_fractions,
                                               freq_range, order),
        num_fractions, sampling_rate, freq_range, order)

---------------------------------------------------------------------------
(* ReconstructingFractionalOctaveBands *)

\* the rows of time: the impulse response of one band, held as the band's
\* center frequency and its length
band_responses(kept, f_id, n_samples) ==
    [raised |-> "",
     warned |-> IF \E i \in 1..Len(f_id) : ~f_id[i]
                THEN <<SkipWarning>> ELSE <<>>,
     time |-> [b \in 1..Len(kept) |->
                  [f_m |-> kept[b], n_samples |-> n_samples]]]

\* f_m = f_m[f_id]
keep_below_nyquist(f_m, f_id, n_samples) ==
    band_responses(Masked(f_m, f_id), f_id, n_samples)

\* faulty variant of below_nyquist: a band centered at Nyquist is kept
below_nyquist_closed(f_m, sampling_rate, n_samples) ==
    keep_below_nyquist(f_m,
                       [i \in 1..Len(f_m) |->
                           f_m[i] <= sampling_rate - Log2],
                       n_samples)

\* f_id = f_m < sampling_rate / 2
below_nyquist(f_m, sampling_rate, n_samples) ==
    keep_below_nyquist(f_m,
                       [i \in 1..Len(f_m) |->
                           f_m[i] < sampling_rate - Log2],
                       n_samples)

\* _get_coefficients from the result f of fractional_octave_frequencies on
responses_of(f, sampling_rate, n_samples) ==
    IF f.raised # ""
    THEN [raised |-> f.raised, warned |-> <<>>, time |-> <<>>]
    ELSE below_nyquist(f.val.exact, sampling_rate, n_samples)

\* ReconstructingFractionalOctaveBands._get_coefficients:
\* [raised, warned, time]
ReconstructingFractionalOctaveBands_get_coefficients(num_fractions, freq_range, overlap, slope, n_samples, sampling_rate) ==
    responses_of(fractional_octave_frequencies(num_fractions, freq_range,
                                               TRUE),
                 sampling_rate, n_samples)

\* faulty variant of check_input: the overlaps 0 and 1 are refused
check_input_open(overlap, slope) ==
    IF overlap <= 0 \/ overlap >= 100
    THEN "overlap must be between 0 and 1"
    ELSE IF ~slope.int \/ slope.v < 0
    THEN "slope must be a positive integer."
    ELSE ""

\* the check of overlap and slope: the message raised, "" when it passes
check_input(overlap, slope) ==
    IF overlap < 0 \/ overlap > 100
    THEN "overlap must be between 0 and 1"
    ELSE IF ~slope.int \/ slope.v < 0
    THEN "slope must be a positive integer."
    ELSE ""

\* the fields of the object once f and the coefficients c are known
ReconstructingFractionalOctaveBands_fields(f, c, super, num_fractions, freq_range, overlap, slope, n_samples) ==
    IF f.raised # ""
    THEN [raised |-> f.raised, warned |-> <<>>,
          calls |-> <<"fractional_octave_frequencies">>,
          obj |-> NoBank]
    ELSE IF c.raised # ""
    THEN [raised |-> c.raised, warned |-> c.warned,
          calls |-> <<"fractional_octave_frequencies", "_get_coefficients">>,
          obj |-> NoBank]
    ELSE [raised |-> "", warned |-> c.warned,
          calls |-> <<"fractional_octave_frequencies", "_get_coefficients">>,
          obj |-> [cls |-> "ReconstructingFractionalOctaveBands",
                   num_fractions |-> num_fractions,
                   freq_range |-> freq_range,
                   overlap |-> overlap,
                   slope |-> slope,
                   n_samples |-> n_samples,
                   sampling_rate |-> super.sampling_rate,
                   norm_frequencies |-> f.val.nominal,
                   exact_frequencies |-> f.val.exact,
                   cutoff_frequencies |-> f.val.f_crit,
                   coefficients |-> super.coefficients,
                   comment |-> <<"Reconstructing linear phase fractional octave filter bank.(num_fractions={}, frequency_range={}, overlap={}, slope={})",
                                num_fractions, freq_range, overlap, slope>>]]

\* super().__init__(coefficients, sampling_rate)
ReconstructingFractionalOctaveBands_super(f, c, num_fractions, freq_range, overlap, slope, n_samples, sampling_rate) ==
    ReconstructingFractionalOctaveBands_fields(
        f, c, Filter_init(c.time, sampling_rate), num_fractions, freq_range,
        overlap, slope, n_samples)

\* ReconstructingFractionalOctaveBands.__init__: [raised, warned, calls, obj]
ReconstructingFractionalOctaveBands_init(num_fractions, freq_range, overlap, slope, n_samples, sampling_rate) ==
    IF check_input(overlap, slope) # ""
    THEN [raised |-> check_input(overlap, slope), warned |-> <<>>,
          calls |-> <<>>, obj |-> NoBank]
    ELSE ReconstructingFractionalOctaveBands_super(
             fractional_octave_frequencies(num_fractions, freq_range, TRUE),
             ReconstructingFractionalOctaveBands_get_coefficients(
                 num_fractions, freq_range, overlap, slope, n_samples,
                 sampling_rate),
             num_fractions, freq_range, overlap, slope, n_samples,
             sampling_rate)

\* the property n_bands of both classes
n_bands(self) == Len(self.exact_frequencies)

---------------------------------------------------------------------------
(* The methods of both classes *)

\* the instance attributes: <<key of self.__dict__, field of the record>>
Attributes ==
    {<<"_num_fractions", "num_fractions">>,
     <<"_sampling_rate", "sampling_rate">>,
     <<"_freq_range", "freq_range">>, <<"_order", "order">>,
     <<"_overlap", "overlap">>, <<"_slope", "slope">>,
     <<"_n_samples", "n_samples">>,
     <<"_norm_frequencies", "norm_frequencies">>,
     <<"_exact_frequencies", "exact_frequencies">>,
     <<"_cutoff_frequencies", "cutoff_frequencies">>,
     <<"_coefficients", "coefficients">>, <<"_comment", "comment">>}

Field(key) == (CHOOSE a \in Attributes : a[1] = key)[2]
Key(field) == (CHOOSE a \in Attributes : a[2] = field)[1]

\* self.__dict__
instance_dict(self) ==
    [key \in {Key(f) : f \in DOMAIN self \ {"cls"}} |-> self[Field(key)]]

\* the object self once its __dict__ is d
with_dict(self, d) ==
    [f \in {"cls"} \cup {Field(k) : k \in DOMAIN d} |->
        IF f = "cls" THEN self.cls ELSE d[Key(f)]]

\* faulty variant of deepcopy: the object itself is handed back
deepcopy_alias(obj) == [alias |-> TRUE, obj |-> obj]

\* copy.deepcopy(obj): a new object with equal contents, sharing nothing
deepcopy(obj) == [alias |-> FALSE, obj |-> obj]

\* copy(self) of both classes
copy(self) == deepcopy(self)

\* keep of FractionalOctaveBands._encode
FractionalOctaveBands_keep ==
    <<"_num_fractions", "_freq_range", "_order", "_sampling_rate">>

\* keep of ReconstructingFractionalOctaveBands._encode
ReconstructingFractionalOctaveBands_keep ==
    <<"_num_fractions", "_freq_range", "_sampling_rate", "_overlap",
      "_slope", "_n_samples">>

keep_of(self) ==
    IF self.cls = "FractionalOctaveBands" THEN FractionalOctaveBands_keep
    ELSE ReconstructingFractionalOctaveBands_keep

\* faulty variant of remove_obsolete: nothing is deleted
remove_nothing(obj_dict, keep) == obj_dict

\* for k in obj_dict.copy().keys(): if k not in keep: del obj_dict[k]
remove_obsolete(obj_dict, keep) ==
    [k \in {key \in DOMAIN obj_dict : \E i \in 1..Len(keep) : keep[i] = key}
        |-> obj_dict[k]]

\* _encode once the copy c and its __dict__ are at hand: [raised, alias,
\* obj_dict]; alias tells that obj_dict is the __dict__ of self itself
encode_dict(c, obj_dict, keep) ==
    IF \E i \in 1..Len(keep) : keep[i] \notin DOMAIN obj_dict
    THEN [raised |-> "KeyError: is not a class variable",
          alias |-> c.alias, obj_dict |-> obj_dict]
    ELSE [raised |-> "", alias |-> c.alias,
          obj_dict |-> remove_obsolete(obj_dict, keep)]

\* _encode of both classes
encode(self) ==
    encode_dict(copy(self), instance_dict(copy(self).obj), keep_of(self))

\* np.asarray(x) of a number x: an array with the one entry x
scalar_asarray(x) == <<x>>

\* a sampling rate as a plain number of Hz
Hz(f) ==
    CASE f = Lg(441000) -> 44100
      [] f = Lg(480000) -> 48000
      [] f = Lg(160000) -> 16000
      [] f = ref_freq + octave_ratio \div 2 + Log2 -> 2825

\* a number of samples (a power of two) as a frequency in Hz
LgSamples(n) == IF n = 1024 THEN 10 * Log2 ELSE 12 * Log2

\* obj.__dict__.update(obj_dict)
dict_update(d, obj_dict) ==
    [k \in DOMAIN d \cup DOMAIN obj_dict |->
        IF k \in DOMAIN obj_dict THEN obj_dict[k] ELSE d[k]]

\* _decode after cls(...): [raised, obj]
decode_update(r, obj_dict) ==
    IF r.raised # "" THEN [raised |-> r.raised, obj |-> NoBank]
    ELSE [raised |-> "",
          obj |-> with_dict(r.obj,
                            dict_update(instance_dict(r.obj), obj_dict))]

\* FractionalOctaveBands._decode: the four values are passed by position to
\* __init__(num_fractions, sampling_rate, freq_range, order)
FractionalOctaveBands_decode(obj_dict) ==
    decode_update(
        FractionalOctaveBands_init(obj_dict["_num_fractions"],
                                   obj_dict["_freq_range"],
                                   scalar_asarray(obj_dict["_order"]),
                                   obj_dict["_sampling_rate"]),
        obj_dict)

\* ReconstructingFractionalOctaveBands._decode: the six values are passed by
\* position to __init__(num_fractions, freq_range, overlap, slope, n_samples,
\* sampling_rate)
ReconstructingFractionalOctaveBands_decode(obj_dict) ==
    decode_update(
        ReconstructingFractionalOctaveBands_init(
            obj_dict["_num_fractions"],
            obj_dict["_freq_range"],
            100 * Hz(obj_dict["_sampling_rate"]),
            [int |-> obj_dict["_overlap"] % 100 = 0,
             v |-> obj_dict["_overlap"] \div 100],
            obj_dict["_slope"].v,
            LgSamples(obj_dict["_n_samples"])),
        obj_dict)

\* cls._decode(obj_dict)
decode(cls, obj_dict) ==
    IF cls = "FractionalOctaveBands"
    THEN FractionalOctaveBands_decode(obj_dict)
    ELSE ReconstructingFractionalOctaveBands_decode(obj_dict)

\* faulty variant of DeepDiff: only the keys are compared
DeepDiff_keys(t1, t2) ==
    {k \in DOMAIN t1 \cup DOMAIN t2 : k \notin DOMAIN t1 \cap DOMAIN t2}

\* deepdiff.DeepDiff(t1, t2) of two dictionaries: the keys that are in one
\* of them only or whose values differ; empty when there is no difference
DeepDiff(t1, t2) ==
    {k \in DOMAIN t1 \cup DOMAIN t2 :
        \/ k \notin DOMAIN t1 \cap DOMAIN t2
        \/ t1[k] # t2[k]}

\* __eq__ of both classes: not DeepDiff(self.__dict__, other.__dict__)
eq(self, other_bank) ==
    DeepDiff(instance_dict(self), instance_dict(other_bank)) = {}

\* a value a method returns
Value(x) == [none |-> FALSE, v |-> x]

\* __repr__ of both classes: the text and the values formatted into it
repr(self) ==
    <<IF self.cls = "FractionalOctaveBands"
      THEN "Energy-preserving {}.-octave filter bank with {} bands between {} and {} Hz with {} Hz sampling rate"
      ELSE "Amplitude-preserving {}.-octave filter bank with {} bands between {} and {} Hz with {} Hz sampling rate",
      self.num_fractions, n_bands(self), self.freq_range[1],
      self.freq_range[2], self.sampling_rate>>

\* the properties of both classes (order is of FractionalOctaveBands only;
\* overlap, slope and n_samples of ReconstructingFractionalOctaveBands only)
Properties(self) ==
    {"num_fractions", "freq_range", "norm_frequencies", "exact_frequencies",
     "cutoff_frequencies", "n_bands", "sampling_rate"}
    \cup (IF self.cls = "FractionalOctaveBands" THEN {"order"}
          ELSE {"overlap", "slope", "n_samples"})

\* self.<name> for a property
property(self, name) ==
    IF name = "n_bands" THEN n_bands(self) ELSE self[name]

---------------------------------------------------------------------------
(* Inputs *)

Fractions == 1..MaxFractions

FreqValues == {Lg(200), Lg(630), Lg(1000), Lg(40000), Lg(50000),
               Lg(160000), Lg(200000), Lg(250000)}

FreqRanges ==
    {<<a, b>> : a \in FreqValues, b \in FreqValues}
    \cup {<<Lg(10000)>>, <<Lg(200), Lg(630), Lg(10000)>>,
          <<Lg(50000), Lg(40000), Lg(200)>>}

\* 44100 Hz, 48000 Hz, 16000 Hz, and twice the upper cut-off frequency of the
\* 1 kHz octave band (2825.08 Hz)
SamplingRates ==
    {Lg(441000), Lg(480000), Lg(160000),
     ref_freq + octave_ratio \div 2 + Log2}

Orders == 1..MaxOrder

\* overlap in hundredths: -0.5, 0, 0.5, 1, 1.5
Overlaps == {-50, 0, 50, 100, 150}

\* slope: the ints 0, 2 and -1, and the float 1.0
Slopes == {[int |-> TRUE, v |-> 0], [int |-> TRUE, v |-> 2],
           [int |-> TRUE, v |-> -1], [int |-> FALSE, v |-> 1]}

NSamples == {1024, 4096}

\* the arguments of the banks the methods are called on
\* 44100 Hz and 16000 Hz
BankRates == {Lg(441000), Lg(160000)}

\* 20 Hz..20 kHz, 63 Hz..16 kHz, 5 kHz..20 kHz
BankRanges == {<<Lg(200), Lg(200000)>>, <<Lg(630), Lg(160000)>>,
               <<Lg(50000), Lg(200000)>>}

BankOverlaps == {0, 50, 100}

BankSlopes == {[int |-> TRUE, v |-> 0], [int |-> TRUE, v |-> 2]}

DefaultArgs ==
    [num_fractions |-> 1, freq_range |-> <<Lg(200), Lg(200000)>>,
     return_cutoff |-> FALSE, sampling_rate |-> Lg(441000), order |-> 14,
     overlap |-> 100, slope |-> [int |-> TRUE, v |-> 0], n_samples |-> 4096]

---------------------------------------------------------------------------
(* The state machine: one call at a time, then its result is dropped *)

\* no second value; no earlier call
NoOther == [kind |-> "None"]
NoOutcome == [op |-> "idle"]

Init ==
    /\ op = "idle"
    /\ args = DefaultArgs
    /\ raised = ""
    /\ warned = <<>>
    /\ calls = <<>>
    /\ ret = NoFrequencies
    /\ bank = NoBank
    /\ other = NoOther
    /\ result = NoneVal
    /\ prev = NoOutcome

\* the state a call leaves: its arguments and what it raised or returned
Outcome(name, a, r) ==
    /\ op' = name
    /\ args' = a
    /\ raised' = r.raised
    /\ warned' = r.warned
    /\ calls' = r.calls
    /\ ret' = r.val
    /\ bank' = r.obj
    /\ other' = NoOther
    /\ result' = NoneVal
    /\ prev' = NoOutcome

Call_fractional_octave_frequencies ==
    /\ op = "idle"
    /\ \E nf \in Fractions, fr \in FreqRanges, rc \in BOOLEAN :
          Outcome("fractional_octave_frequencies",
                  [DefaultArgs EXCEPT !.num_fractions = nf,
                                      !.freq_range = fr,
                                      !.return_cutoff = rc],
                  [warned |-> <<>>, calls |-> <<>>, obj |-> NoBank]
                  @@ fractional_octave_frequencies(nf, fr, rc))

\* FractionalOctaveBands(nf, sr, fr, order) with arguments from the sets
Construct_FractionalOctaveBands(NF, SR, FR, ORD) ==
    /\ op = "idle"
    /\ \E nf \in NF, sr \in SR, fr \in FR, order \in ORD :
          Outcome("FractionalOctaveBands",
                  [DefaultArgs EXCEPT !.num_fractions = nf,
                                      !.sampling_rate = sr,
                                      !.freq_range = fr,
                                      !.return_cutoff = TRUE,
                                      !.order = order],
                  [val |-> NoFrequencies]
                  @@ FractionalOctaveBands_init(nf, sr, fr, order))

\* ReconstructingFractionalOctaveBands(nf, fr, overlap, slope, n_samples, sr)
\* with arguments from the sets
Construct_ReconstructingFractionalOctaveBands(NF, FR, OV, SL, NS, SR) ==
    /\ op = "idle"
    /\ \E nf \in NF, fr \in FR, overlap \in OV, slope \in SL,
          n_samples \in NS, sr \in SR :
          Outcome("ReconstructingFractionalOctaveBands",
                  [DefaultArgs EXCEPT !.num_fractions = nf,
                                      !.freq_range = fr,
                                      !.return_cutoff = TRUE,
                                      !.overlap = overlap,
                                      !.slope = slope,
                                      !.n_samples = n_samples,
                                      !.sampling_rate = sr],
                  [val |-> NoFrequencies]
                  @@ ReconstructingFractionalOctaveBands_init(
                         nf, fr, overlap, slope, n_samples, sr))

New_FractionalOctaveBands ==
    Construct_FractionalOctaveBands(Fractions, SamplingRates, FreqRanges,
                                    Orders)

New_ReconstructingFractionalOctaveBands ==
    Construct_ReconstructingFractionalOctaveBands(
        Fractions, FreqRanges, Overlaps, Slopes, NSamples,
        SamplingRates \ {ref_freq + octave_ratio \div 2 + Log2})

Return ==
    /\ op # "idle"
    /\ op' = "idle"
    /\ args' = DefaultArgs
    /\ raised' = ""
    /\ warned' = <<>>
    /\ calls' = <<>>
    /\ ret' = NoFrequencies
    /\ bank' = NoBank
    /\ other' = NoOther
    /\ result' = NoneVal
    /\ prev' = NoOutcome

\* the call that has just returned, made once more with the same arguments
\* (the bank it constructed is still there)
Repeated(a) ==
    IF op = "fractional_octave_frequencies"
    THEN [warned |-> <<>>, calls |-> <<>>, obj |-> NoBank]
         @@ fractional_octave_frequencies(a.num_fractions, a.freq_range,
                                          a.return_cutoff)
    ELSE IF op = "FractionalOctaveBands"
    THEN [val |-> NoFrequencies]
         @@ FractionalOctaveBands_init(a.num_fractions, a.sampling_rate,
                                       a.freq_range, a.order)
    ELSE [val |-> NoFrequencies]
         @@ ReconstructingFractionalOctaveBands_init(
                a.num_fractions, a.freq_range, a.overlap, a.slope,
                a.n_samples, a.sampling_rate)

Outcome_again(r) ==
    /\ op' = op
    /\ args' = args
    /\ raised' = r.raised
    /\ warned' = r.warned
    /\ calls' = r.calls
    /\ ret' = r.val
    /\ bank' = r.obj
    /\ other' = NoOther
    /\ result' = NoneVal
    /\ prev' = [op |-> op, args |-> args, raised |-> raised, ret |-> ret,
                bank |-> bank]

Call_again ==
    /\ op \in {"fractional_octave_frequencies", "FractionalOctaveBands",
               "ReconstructingFractionalOctaveBands"}
    /\ prev = NoOutcome
    /\ Outcome_again(Repeated(args))

---------------------------------------------------------------------------
(* The methods of a constructed bank: one method call, then Return *)

\* the state a method of the bank leaves
MethodOutcome(name, r) ==
    /\ op' = name
    /\ args' = args
    /\ raised' = r.raised
    /\ warned' = <<>>
    /\ calls' = <<>>
    /\ ret' = NoFrequencies
    /\ bank' = r.self
    /\ other' = r.other
    /\ result' = r.result
    /\ prev' = NoOutcome

\* a constructor has returned the bank
Constructed ==
    /\ op \in {"FractionalOctaveBands", "ReconstructingFractionalOctaveBands"}
    /\ raised = ""

\* what _encode leaves: the dictionary it returns, and self, which has lost
\* the deleted keys when the dictionary is its own __dict__
encoded(self, e) ==
    [raised |-> e.raised,
     self |-> IF e.alias THEN with_dict(self, e.obj_dict) ELSE self,
     other |-> [kind |-> "dict", alias |-> e.alias, v |-> e.obj_dict],
     result |-> NoneVal]

Call_encode ==
    /\ Constructed
    /\ MethodOutcome("_encode", encoded(bank, encode(bank)))

Next ==
    \/ Call_fractional_octave_frequencies
    \/ New_FractionalOctaveBands
    \/ New_ReconstructingFractionalOctaveBands
    \/ Return

Spec == Init /\ [][Next]_vars

\* what _decode leaves: the bank it returns
decoded(self, r) ==
    [raised |-> r.raised, self |-> self,
     other |-> IF r.raised # "" THEN NoOther
               ELSE [kind |-> "bank", alias |-> FALSE, v |-> r.obj],
     result |-> NoneVal]

\* cls._decode(b._encode()) for the dictionary _encode has returned
Call_decode ==
    /\ op = "_encode" /\ raised = ""
    /\ MethodOutcome("_decode", decoded(bank, decode(bank.cls, other.v)))

\* what copy() leaves: the object it returns
copied(self, c) ==
    [raised |-> "", self |-> self,
     other |-> [kind |-> "bank", alias |-> c.alias, v |-> c.obj,
                args |-> args],
     result |-> NoneVal]

Call_copy ==
    /\ Constructed
    /\ MethodOutcome("copy", copied(bank, copy(bank)))

\* a second bank of the same class, constructed with the arguments a
Second(a) ==
    IF bank.cls = "FractionalOctaveBands"
    THEN FractionalOctaveBands_init(a.num_fractions, a.sampling_rate,
                                    a.freq_range, a.order)
    ELSE ReconstructingFractionalOctaveBands_init(
             a.num_fractions, a.freq_range, a.overlap, a.slope,
             a.n_samples, a.sampling_rate)

\* the arguments of the bank, and those that differ from them in one place
Variations ==
    {args}
    \cup {[args EXCEPT !.num_fractions = nf] : nf \in Fractions}
    \cup {[args EXCEPT !.sampling_rate = sr] : sr \in BankRates}
    \cup {[args EXCEPT !.freq_range = fr] : fr \in BankRanges}
    \cup (IF bank.cls = "FractionalOctaveBands"
          THEN {[args EXCEPT !.order = o] : o \in Orders}
          ELSE {[args EXCEPT !.overlap = ov] : ov \in BankOverlaps}
               \cup {[args EXCEPT !.slope = sl] : sl \in BankSlopes}
               \cup {[args EXCEPT !.n_samples = ns] : ns \in NSamples})

second_bank(self, a, r) ==
    [raised |-> r.raised, self |-> self,
     other |-> IF r.raised # "" THEN NoOther
               ELSE [kind |-> "bank", alias |-> FALSE, v |-> r.obj,
                     args |-> a],
     result |-> NoneVal]

\* a second bank is constructed next to the first
Construct_second ==
    /\ Constructed
    /\ \E a \in Variations :
          MethodOutcome("second", second_bank(bank, a, Second(a)))

\* what self == other leaves
compared(self, other_bank, equal) ==
    [raised |-> "", self |-> self, other |-> other_bank,
     result |-> Value(equal)]

\* self == other, for the copy or the second bank
Call_eq ==
    /\ op \in {"copy", "second"} /\ raised = ""
    /\ MethodOutcome("__eq__", compared(bank, other, eq(bank, other.v)))

\* what a method that only returns a value leaves
returned(self, x) ==
    [raised |-> "", self |-> self, other |-> NoOther, result |-> Value(x)]

Call_repr ==
    /\ Constructed
    /\ MethodOutcome("__repr__", returned(bank, repr(bank)))

Get_property ==
    /\ Constructed
    /\ \E name \in Properties(bank) :
          MethodOutcome(name, returned(bank, property(bank, name)))

\* other[key] = x on the dictionary _encode returned, or other.<key> = x on
\* the copy: the entry changes, and self changes with it when the two are one
\* object
assigned(self, o, key, x) ==
    [raised |-> "",
     self |-> IF o.alias THEN [self EXCEPT ![Field(key)] = x] ELSE self,
     other |-> IF o.kind = "dict" THEN [o EXCEPT !.v[key] = x]
               ELSE [o EXCEPT !.v[Field(key)] = x],
     result |-> NoneVal]

\* the caller changes what _encode or copy returned
Change_returned ==
    /\ op \in {"_encode", "copy"} /\ raised = ""
    /\ \E x \in Fractions :
          MethodOutcome("change",
                        assigned(bank, other, "_num_fractions", x))

---------------------------------------------------------------------------
(* The banks the methods are called on *)

Build_FractionalOctaveBands ==
    Construct_FractionalOctaveBands(Fractions, BankRates, BankRanges, Orders)

Build_ReconstructingFractionalOctaveBands ==
    Construct_ReconstructingFractionalOctaveBands(
        Fractions, BankRanges, BankOverlaps, BankSlopes, NSamples, BankRates)

BankNext ==
    \/ Call_fractional_octave_frequencies
    \/ Build_FractionalOctaveBands
    \/ Build_ReconstructingFractionalOctaveBands
    \/ Call_encode
    \/ Call_decode
    \/ Call_copy
    \/ Construct_second
    \/ Call_eq
    \/ Call_repr
    \/ Get_property
    \/ Change_returned
    \/ Call_again
    \/ Return

BankSpec == Init /\ [][BankNext]_vars

---------------------------------------------------------------------------
(* The magnitude responses of ReconstructingFractionalOctaveBands          *)
(* (_get_coefficients up to g = g**2).  A DFT line is an integer; a ramp   *)
(* value phi in [-1, 1] is held in units of 1 / Scale; an entry of g is    *)
(* the record [fn, phi, power]: 1., 0., or the cosine or sine of           *)
(* pi/2 * .5 * (phi + 1), raised to power.                                 *)

\* Lg(j + 1/2) for j = 0..99: np.round(x) is the number of these below x
HalfLines ==
    <<-50573, 29583, 66854, 91403, 109740, 124381, 136569, 147010,
      156142, 164258, 171560, 178197, 184281, 189896, 195110, 199976,
      204537, 208830, 212885, 216726, 220375, 223850, 227167, 230339,
      233380, 236299, 239105, 241808, 244414, 246930, 249362, 251716,
      253996, 256208, 258354, 260438, 262465, 264437, 266357, 268228,
      270052, 271832, 273569, 275266, 276924, 278546, 280132, 281685,
      283205, 284694, 286153, 287584, 288987, 290363, 291715, 293041,
      294344, 295624, 296882, 298119, 299335, 300531, 301708, 302866,
      304006, 305129, 306234, 307323, 308396, 309453, 310496, 311523,
      312537, 313536, 314522, 315495, 316455, 317403, 318338, 319262,
      320174, 321074, 321964, 322843, 323712, 324570, 325419, 326257,
      327086, 327906, 328717, 329519, 330312, 331096, 331873, 332641,
      333401, 334153, 334897, 335634>>

\* Lg(n_samples)
LgLength(n_samples) ==
    CASE n_samples = 11 -> 174954
      [] n_samples = 64 -> 303438
      [] n_samples = 128 -> 354011

\* np.round(n_samples * f / sampling_rate).astype(int); a tie goes to the
\* even line
dft_line(f, n_samples, sampling_rate) ==
    Cardinality({j \in 1..Len(HalfLines) :
        \/ HalfLines[j] < LgLength(n_samples) + f - sampling_rate
        \/ /\ HalfLines[j] = LgLength(n_samples) + f - sampling_rate
           /\ j % 2 = 0})

\* an array with every entry computed: the same sequence, held as a tuple
ndarray(a) == a \o <<>>

\* the lines of all kept bands
dft_lines(f, n_samples, sampling_rate) ==
    ndarray([b \in 1..Len(f) |-> dft_line(f[b], n_samples, sampling_rate)])

\* P = np.round(overlap / 2 * (k_2 - k_m)).astype(int)
overlap_in_samples(overlap, k_m, k_2) ==
    ndarray([b \in 1..Len(k_m) |-> Round(overlap * (k_2[b] - k_m[b]), 200)])

\* ramp values are held in units of 1 / Scale
Scale == 10000

\* np.sin(np.pi / 2 * x) for x in [-1, 1]: the rational approximation
\* 4 u / (5 - u) with u = |x| (2 - |x|), which is odd, increasing, exact at
\* 0, 1/3 and 1 and within 0.002 of the sine
sin_half_pi(x) ==
    LET a == IF x < 0 THEN -x ELSE x
        u == Round(a * (2 * Scale - a), Scale)
        y == Round(4 * u * Scale, 5 * Scale - u)
    IN  IF x < 0 THEN -y ELSE y

\* faulty variant of warped: phi starts in the range [0, 1]
warped_from_zero(p, P, slope) ==
    LET phi[n \in 0..slope] ==
            IF n = 0 THEN Round((p + P) * Scale, 2 * P)
            ELSE sin_half_pi(phi[n - 1])
    IN  phi[slope]

\* phi = p / P, then slope times phi = np.sin(np.pi / 2 * phi)
warped(p, P, slope) ==
    LET phi[n \in 0..slope] ==
            IF n = 0 THEN Round(p * Scale, P) ELSE sin_half_pi(phi[n - 1])
    IN  phi[slope]

\* phi of one iteration before the shift to [0, 1]: empty unless P > 0
ramp(P, slope) ==
    IF P > 0
    THEN [i \in 1..(2 * P + 1) |-> warped(i - 1 - P, P, slope)]
    ELSE <<>>

One == [fn |-> "one", phi |-> 0, power |-> 1]
Zero == [fn |-> "zero", phi |-> 0, power |-> 1]

\* a[i:] or a[:i] of an array of n entries: where the slice starts or stops
index(i, n) ==
    IF i < 0 THEN (IF i + n < 0 THEN 0 ELSE i + n)
    ELSE IF i > n THEN n ELSE i

\* the iteration b_idx of the loop: whether it runs, and its k_1 and P
iteration(b_idx, k_1, P) ==
    IF b_idx >= 1 /\ b_idx < Len(k_1)
    THEN [on |-> TRUE, k_1 |-> k_1[b_idx + 1], P |-> P[b_idx + 1]]
    ELSE [on |-> FALSE, k_1 |-> 0, P |-> 0]

\* g[b_idx, k] after iteration b_idx: the fade in written over the window,
\* then zero before it
fade_in(k, it, slope, n_bins) ==
    IF ~it.on THEN One
    ELSE IF k < index(it.k_1 - it.P, n_bins) THEN Zero
    ELSE IF it.P > 0 /\ k < index(it.k_1 + it.P + 1, n_bins)
    THEN [fn |-> "sin",
          phi |-> warped(k - index(it.k_1 - it.P, n_bins) - it.P, it.P,
                         slope),
          power |-> 1]
    ELSE One

\* g[b_idx - 1, k] after iteration b_idx, v before it: the fade out written
\* over the window, then zero from the last line of the window on
fade_out(v, k, it, slope, n_bins) ==
    IF ~it.on THEN v
    ELSE IF k >= index(it.k_1 + it.P, n_bins) THEN Zero
    ELSE IF it.P > 0 /\ k >= index(it.k_1 - it.P, n_bins)
    THEN [fn |-> "cos",
          phi |-> warped(k - index(it.k_1 - it.P, n_bins) - it.P, it.P,
                         slope),
          power |-> 1]
    ELSE v

\* faulty variant of squared: g is left as it is
not_squared(v) == v

\* g = g**2
squared(v) == [v EXCEPT !.power = 2 * v.power]

\* the assignment of the 2 P + 1 fade values to a slice of another length
BroadcastError == "could not broadcast input array from shape ({},) into shape ({},)"

\* whether a fade does not fit the slice it is assigned to
truncated(k_1, P, n_bins) ==
    \E b \in 2..Len(k_1) :
        /\ P[b] > 0
        /\ index(k_1[b] + P[b] + 1, n_bins) - index(k_1[b] - P[b], n_bins)
              # 2 * P[b] + 1

\* the loop and g = g**2: [raised, val] with the lines, the ramps and g
magnitudes(k_1, k_m, k_2, P, slope, n_bins) ==
    IF truncated(k_1, P, n_bins)
    THEN [raised |-> BroadcastError, val |-> NoneVal]
    ELSE [raised |-> "",
          val |-> Value(
            [k_1 |-> k_1, k_m |-> k_m, k_2 |-> k_2, P |-> P,
             n_bins |-> n_bins,
             phi |-> [b \in 1..Len(k_1) |->
                        IF b >= 2 THEN ramp(P[b], slope) ELSE <<>>],
             g |-> [b \in 1..Len(k_1) |->
                      [k \in 1..n_bins |->
                         squared(fade_out(
                             fade_in(k - 1, iteration(b - 1, k_1, P), slope,
                                     n_bins),
                             k - 1, iteration(b, k_1, P), slope,
                             n_bins))]]])]

\* the lines of the kept bands, then the loop
lines_of(f_m, f_1, f_2, overlap, slope, n_samples, sampling_rate) ==
    magnitudes(dft_lines(f_1, n_samples, sampling_rate),
               dft_lines(f_m, n_samples, sampling_rate),
               dft_lines(f_2, n_samples, sampling_rate),
               overlap_in_samples(
                   overlap, dft_lines(f_m, n_samples, sampling_rate),
                   dft_lines(f_2, n_samples, sampling_rate)),
               slope, n_samples \div 2 + 1)

\* f_id = f_m < sampling_rate / 2, the warning, and the bands kept
kept_bands(f, f_id, overlap, slope, n_samples, sampling_rate) ==
    [warned |-> IF \E i \in 1..Len(f_id) : ~f_id[i]
                THEN <<SkipWarning>> ELSE <<>>,
     out |-> lines_of(ndarray(Masked(f.exact, f_id)),
                      ndarray(Masked(f.f_crit[1], f_id)),
                      ndarray(Masked(f.f_crit[2], f_id)),
                      overlap, slope, n_samples, sampling_rate)]

\* ReconstructingFractionalOctaveBands._get_coefficients up to g = g**2
magnitude_responses(f, overlap, slope, n_samples, sampling_rate) ==
    kept_bands(f.val,
               ndarray([i \in 1..Len(f.val.exact) |->
                           f.val.exact[i] < sampling_rate - Log2]),
               overlap, slope, n_samples, sampling_rate)

\* the parameters the magnitude responses are computed for
\* 16000 Hz and 44100 Hz
LineRates == {Lg(160000), Lg(441000)}
\* 20 Hz..20 kHz, 63 Hz..16 kHz
LineRanges == {<<Lg(200), Lg(200000)>>, <<Lg(630), Lg(160000)>>}
LineOverlaps == {0, 50, 100}
LineSlopes == {0, 1, 2}
LineSamples == {11, 64, 128}

\* the state _get_coefficients is in after g = g**2
Computed(a, m) ==
    /\ op' = "_get_coefficients"
    /\ args' = a
    /\ raised' = m.out.raised
    /\ warned' = m.warned
    /\ calls' = <<"fractional_octave_frequencies">>
    /\ ret' = NoFrequencies
    /\ bank' = NoBank
    /\ other' = NoOther
    /\ result' = m.out.val
    /\ prev' = NoOutcome

Call_get_coefficients ==
    /\ op = "idle"
    /\ \E nf \in Fractions, fr \in LineRanges, overlap \in LineOverlaps,
          slope \in LineSlopes, n_samples \in LineSamples,
          sr \in LineRates :
          Computed([DefaultArgs EXCEPT !.num_fractions = nf,
                                       !.freq_range = fr,
                                       !.overlap = overlap,
                                       !.slope = [int |-> TRUE, v |-> slope],
                                       !.n_samples = n_samples,
                                       !.sampling_rate = sr],
                   magnitude_responses(
                       fractional_octave_frequencies(nf, fr, TRUE),
                       overlap, slope, n_samples, sr))

LineNext ==
    \/ Call_get_coefficients
    \/ Return

LineSpec == Init /\ [][LineNext]_vars

---------------------------------------------------------------------------
(* pyfar.io (src/pyfar/io/io.py, src/pyfar/io.py): write and a helper of  *)
(* read_comsol.  A file name is the sequence of its parts between dots, a  *)
(* file the record of its name, its compression and its entries.           *)

\* faulty variant of differs_from_previous: an element is appended when it
\* has not occurred before
differs_from_all_before(a) ==
    [i \in 1..Len(a) |-> \A j \in 1..(i - 1) : a[i] # a[j]]

\* the loop of _remove_neighbored_duplicates: a[0] is taken, a later element
\* is appended when it differs from the element before it
differs_from_previous(a) == [i \in 1..Len(a) |-> i = 1 \/ a[i] # a[i - 1]]

\* _remove_neighbored_duplicates(a); a[0] of an empty list raises IndexError
remove_neighbored_duplicates(a) ==
    IF a = <<>>
    THEN [raised |-> "list index out of range", val |-> NoneVal]
    ELSE [raised |-> "", val |-> Value(Masked(a, differs_from_previous(a)))]

\* pathlib.Path(filename).with_suffix('.far')
with_suffix(filename) ==
    IF Len(filename) > 1
    THEN [i \in 1..Len(filename) |->
            IF i = Len(filename) THEN "far" ELSE filename[i]]
    ELSE Append(filename, "far")

\* src/pyfar/io.py: '.far' is added unless the text after the last dot is
\* 'far'
extend_filename(filename) ==
    IF filename[Len(filename)] # "far"
    THEN Append(filename, "far")
    ELSE filename

\* compression = zipfile.ZIP_STORED if compress else zipfile.ZIP_DEFLATED
compression_of(compress) ==
    IF compress THEN "ZIP_STORED" ELSE "ZIP_DEFLATED"

PyfarTypes == {"Coordinates"}
NumpyTypes == {"ndarray"}
BuiltinTypes == {"int"}

WriteError == "Objects of type {} cannot be written to disk."
WriteErrorShort == "Objects of type {}"

\* the entries write of src/pyfar/io/io.py puts into the archive: one for
\* every pyfar object and numpy array, then one for all builtins
entries_of(objs) ==
    Masked([i \in 1..Len(objs) |->
                [name |-> objs[i].name,
                 encoder |-> IF objs[i].type \in PyfarTypes
                             THEN "_encode_object_json_aided" ELSE "_encode"]],
           [i \in 1..Len(objs) |-> objs[i].type \in PyfarTypes \cup NumpyTypes])
    \o (IF \E i \in 1..Len(objs) : objs[i].type \in BuiltinTypes
        THEN <<[name |-> "builtin_wrapper",
                encoder |-> "_encode_object_json_aided"]>>
        ELSE <<>>)

\* write of src/pyfar/io/io.py: what it raises and the file it leaves
write(filename, compress, objs) ==
    IF \E i \in 1..Len(objs) :
          objs[i].type \notin PyfarTypes \cup NumpyTypes \cup BuiltinTypes
    THEN [raised |-> WriteError, warned |-> <<>>, val |-> NoneVal]
    ELSE [raised |-> "", warned |-> <<>>,
          val |-> Value([filename |-> with_suffix(filename),
                         compression |-> compression_of(compress),
                         entries |-> entries_of(objs)])]

\* write of src/pyfar/io.py: pyfar objects only, each with a json entry
write_io_py(filename, compress, objs) ==
    IF \E i \in 1..Len(objs) : objs[i].type \notin PyfarTypes
    THEN [raised |-> WriteErrorShort,
          warned |-> IF filename[Len(filename)] # "far"
                     THEN <<[msg |-> "Extending filename by .far."]>>
                     ELSE <<>>,
          val |-> NoneVal]
    ELSE [raised |-> "",
          warned |-> IF filename[Len(filename)] # "far"
                     THEN <<[msg |-> "Extending filename by .far."]>>
                     ELSE <<>>,
          val |-> Value([filename |-> extend_filename(filename),
                         compression |-> compression_of(compress),
                         entries |-> [i \in 1..Len(objs) |->
                                        [name |-> objs[i].name,
                                         encoder |-> "_encode"]]])]

\* the inputs of pyfar.io
Elements == {"100", "500", "1000"}
Lists == UNION {[1..n -> Elements] : n \in 0..MaxLen}
Filenames == {<<"data">>, <<"data", "far">>, <<"data", "zip">>}
ObjectTypes == PyfarTypes \cup NumpyTypes \cup BuiltinTypes \cup {"object"}
Objects ==
    UNION {[1..n -> [name : {"obj"}, type : ObjectTypes]] : n \in 0..2}

\* the state a call of pyfar.io leaves
IoOutcome(name, a, r, w) ==
    /\ op' = name
    /\ args' = a
    /\ raised' = r.raised
    /\ warned' = w
    /\ calls' = <<>>
    /\ ret' = NoFrequencies
    /\ bank' = NoBank
    /\ other' = NoOther
    /\ result' = r.val
    /\ prev' = NoOutcome

Call_remove_neighbored_duplicates ==
    /\ op = "idle"
    /\ \E a \in Lists :
          IoOutcome("_remove_neighbored_duplicates", [a |-> a],
                    remove_neighbored_duplicates(a), <<>>)

\* the function applied to the list it returned
Call_remove_neighbored_duplicates_again ==
    /\ op = "_remove_neighbored_duplicates"
    /\ raised = ""
    /\ prev = NoOutcome
    /\ op' = op
    /\ args' = [a |-> result.v]
    /\ raised' = remove_neighbored_duplicates(result.v).raised
    /\ result' = remove_neighbored_duplicates(result.v).val
    /\ prev' = [op |-> op, args |-> args, result |-> result]
    /\ UNCHANGED <<warned, calls, ret, bank, other>>

Written(name, f, c, o, r) ==
    IoOutcome(name, [filename |-> f, compress |-> c, objs |-> o], r, r.warned)

Call_write ==
    /\ op = "idle"
    /\ \E f \in Filenames, c \in BOOLEAN, o \in Objects :
          Written("write", f, c, o, write(f, c, o))

Call_write_io_py ==
    /\ op = "idle"
    /\ \E f \in Filenames, c \in BOOLEAN, o \in Objects :
          Written("write_io_py", f, c, o, write_io_py(f, c, o))

IoNext ==
    \/ Call_remove_neighbored_duplicates
    \/ Call_remove_neighbored_duplicates_again
    \/ Call_write
    \/ Call_write_io_py
    \/ Return

IoSpec == Init /\ [][IoNext]_vars

---------------------------------------------------------------------------
(* Properties *)

LimitsError == "You need to specify a lower and upper limit frequency."
OrderError == "The second frequency needs to be higher than the first."
OverlapError == "overlap must be between 0 and 1"
SlopeError == "slope must be a positive integer."
ButterError == "Digital filter critical frequencies must be 0 < Wn < 1"

\* freq_range has two entries, the first not above the second
WellFormed(fr) == Len(fr) = 2 /\ fr[1] <= fr[2]

\* the error a malformed freq_range is refused with
RangeError(fr) == IF Len(fr) # 2 THEN LimitsError ELSE OrderError

InputOk == args.overlap >= 0 /\ args.overlap <= 100
           /\ args.slope.int /\ args.slope.v >= 0

C3_ParameterValidation ==
    op = "ReconstructingFractionalOctaveBands" =>
       /\ (args.overlap < 0 \/ args.overlap > 100) <=> raised = OverlapError
       /\ (args.overlap >= 0 /\ args.overlap <= 100
           /\ (~args.slope.int \/ args.slope.v < 0)) <=> raised = SlopeError
       /\ raised \in {OverlapError, SlopeError} => calls = <<>>
       /\ raised # "" => bank = NoBank
       /\ raised = "" => bank.cls = "ReconstructingFractionalOctaveBands"

\* overlap 1.5 was refused although freq_range is malformed too
C3_Witness ==
    /\ op = "ReconstructingFractionalOctaveBands"
    /\ args.overlap = 150
    /\ ~WellFormed(args.freq_range)
    /\ raised = OverlapError
    /\ calls = <<>>

\* C4 (as claimed): the energy-preserving design raises for a malformed
\* freq_range only; with a well-formed freq_range, a positive sampling rate
\* and a positive order it returns a tensor, also when a band's normalized
\* upper edge is exactly 1.
C4_OnlyMalformedRangeRaises ==
    op = "FractionalOctaveBands" /\ WellFormed(args.freq_range) =>
        raised = ""

\* the grid of the call in args
Grid == fractional_octave_frequencies(args.num_fractions, args.freq_range,
                                      TRUE).val
Nyquist == args.sampling_rate - Log2
\* the bands of grid g that lie above Nyquist altogether
Above(g) == {i \in 1..Len(g.exact) : g.f_crit[1][i] >= Nyquist}

\* C5 (as claimed): with the upper limit of freq_range above
\* sampling_rate / 2 the energy-preserving design returns fewer bands than
\* the grid has, emits a diagnostic and raises nothing.  (Stated for the
\* designs that do not fail as in C4, so that what refutes it is the band
\* count and the diagnostic.)
C5_AsClaimed ==
    op = "FractionalOctaveBands" /\ WellFormed(args.freq_range)
    /\ args.freq_range[2] > Nyquist /\ raised # ButterError =>
        /\ raised = ""
        /\ warned # <<>>
        /\ Len(bank.coefficients) < Len(bank.exact_frequencies)

\* C5 (amended): when at least one band of the grid has its lower cut-off
\* frequency at or above sampling_rate / 2, the skip diagnostic is emitted
\* and every tensor the design returns has exactly the other bands, fewer
\* than the grid; the design raises exactly when a band it keeps has its
\* upper cut-off frequency equal to sampling_rate / 2.
C5_NyquistDegradation ==
    op = "FractionalOctaveBands" /\ WellFormed(args.freq_range) =>
        LET g == Grid
            above == Above(g)
        IN  above # {} =>
              /\ warned # <<>> /\ warned[1] = SkipWarning
              /\ raised = "" =>
                    /\ Len(bank.coefficients)
                          = Len(g.exact) - Cardinality(above)
                    /\ Len(bank.coefficients) < Len(g.exact)
              /\ raised # "" <=>
                    \E i \in 1..Len(g.exact) :
                        i \notin above /\ g.f_crit[2][i] = Nyquist

\* octave bands 8 kHz and 16 kHz at 16 kHz sampling rate: the upper band is
\* dropped with the diagnostic and one band is returned
C5_Witness ==
    /\ op = "FractionalOctaveBands"
    /\ raised = ""
    /\ Len(bank.exact_frequencies) = 2
    /\ Cardinality(Above(Grid)) = 1
    /\ Len(bank.coefficients) = 1
    /\ warned[1] = SkipWarning

\* C6 (as claimed): n_bands of a constructed bank is the number of bands of
\* its coefficients.
C6_BandCountMatchesCoefficients ==
    bank # NoBank => n_bands(bank) = Len(bank.coefficients)

\* the standard table of a fraction, and the exact frequencies of its entries
Table(nf) == IF nf = 1 THEN NominalOctaves ELSE NominalThirds
TableExact(nf) == [i \in 1..Len(Table(nf)) |->
                      reference_freq
                      + Round(nf * (Table(nf)[i] - reference_freq),
                              octave_ratio) * (octave_ratio \div nf)]
\* the table entries within the limits
Within(nf, fr) == {i \in 1..Len(Table(nf)) :
                      fr[1] <= Table(nf)[i] /\ Table(nf)[i] <= fr[2]}
Least(S) == CHOOSE i \in S : \A j \in S : i <= j
Greatest(S) == CHOOSE i \in S : \A j \in S : j <= i

\* C7: for num_fractions 1 and 3 nominal is the run of the standard table
\* (10 octave entries 31.5 .. 16000, 30 third-octave entries 25 .. 20000)
\* whose values n satisfy low <= n <= high, in table order, and exact holds
\* the exact frequencies of the same entries; (1, (100, 4000)) gives
\* 125, 250, 500, 1000, 2000, 4000.
C7_RangeFiltering ==
    /\ Len(NominalOctaves) = 10 /\ Len(NominalThirds) = 30
    /\ NominalOctaves[1] = Lg(315) /\ NominalOctaves[10] = Lg(160000)
    /\ NominalThirds[1] = Lg(250) /\ NominalThirds[30] = Lg(200000)
    /\ op = "fractional_octave_frequencies" /\ raised = ""
       /\ args.num_fractions \in {1, 3} =>
          LET nf == args.num_fractions
              W == Within(nf, args.freq_range)
          IN  /\ ~ret.nominal.none
              /\ W = {} => ret.nominal.v = <<>> /\ ret.exact = <<>>
              /\ W # {} =>
                   /\ ret.nominal.v = SubSeq(Table(nf), Least(W), Greatest(W))
                   /\ ret.exact = SubSeq(TableExact(nf), Least(W),
                                         Greatest(W))
              /\ (nf = 1 /\ args.freq_range = <<Lg(1000), Lg(40000)>>) =>
                   ret.nominal.v = <<Lg(1250), Lg(2500), Lg(5000),
                                     Lg(10000), Lg(20000), Lg(40000)>>

\* the octave bands of 100 Hz .. 4 kHz were asked for
C7_Witness ==
    /\ op = "fractional_octave_frequencies"
    /\ args.num_fractions = 1
    /\ args.freq_range = <<Lg(1000), Lg(40000)>>
    /\ Len(ret.nominal.v) = 6
    /\ Len(ret.exact) = 6

C9_UnsupportedFractionsFail ==
    op = "fractional_octave_frequencies" /\ WellFormed(args.freq_range)
    /\ args.num_fractions \notin {1, 3}
        => raised = "Number of fractions can only be 1 or 3."

\* C10: with return_cutoff, every band i has lower[i] < exact[i] < upper[i],
\* exact[i] the geometric mean of lower[i] and upper[i], and
\* upper[i] / lower[i] = G^(1/num_fractions): in Lg, exact[i] is the mean of
\* the two and num_fractions * (upper[i] - lower[i]) is Lg(G).
C10_CutoffSymmetry ==
    op = "fractional_octave_frequencies" /\ raised = ""
    /\ args.return_cutoff =>
        LET lower == ret.f_crit[1]
            upper == ret.f_crit[2]
        IN  /\ ret.has_cutoff
            /\ Len(lower) = Len(ret.exact) /\ Len(upper) = Len(ret.exact)
            /\ \A i \in 1..Len(ret.exact) :
                  /\ lower[i] < ret.exact[i] /\ ret.exact[i] < upper[i]
                  /\ 2 * ret.exact[i] = lower[i] + upper[i]
                  /\ args.num_fractions * (upper[i] - lower[i])
                        = octave_ratio

\* cut-off frequencies were returned for quarter-octave bands
C10_Witness ==
    /\ op = "fractional_octave_frequencies"
    /\ args.return_cutoff
    /\ args.num_fractions = 4
    /\ Len(ret.f_crit[2]) > 3

\* C11: for every valid input of fractional_octave_frequencies the exact
\* center frequencies returned are strictly increasing, nominal has as many
\* entries as exact whenever it is defined, and the lower and the upper
\* cut-off frequencies, when returned, have as many entries as exact.
C11_GridShape ==
    op = "fractional_octave_frequencies" /\ raised = "" =>
        /\ \A i \in 1..(Len(ret.exact) - 1) : ret.exact[i] < ret.exact[i + 1]
        /\ ~ret.nominal.none => Len(ret.nominal.v) = Len(ret.exact)
        /\ ret.has_cutoff = args.return_cutoff
        /\ ret.has_cutoff =>
              /\ Len(ret.f_crit[1]) = Len(ret.exact)
              /\ Len(ret.f_crit[2]) = Len(ret.exact)

\* third-octave bands with nominal values and cut-off frequencies, the range
\* leaving out a part of the table
C11_Witness ==
    /\ op = "fractional_octave_frequencies" /\ raised = ""
    /\ args.num_fractions = 3 /\ ret.has_cutoff
    /\ ~ret.nominal.none
    /\ Len(ret.exact) > 2 /\ Len(ret.exact) < 30

\* the second order sections one band holds in the tensor: those butter
\* designed and the identity sections appended to them
Sections(band) == band.sections + band.identity

\* C12: for every input (a well-formed freq_range) the energy-preserving
\* design returns a tensor with one slot of exactly order sections for each
\* band it keeps: a band-pass has order sections of its own and none
\* appended, a high-pass has ceil(order / 2) of its own and identity sections
\* appended up to order.
C12_UniformShape ==
    op = "FractionalOctaveBands" /\ WellFormed(args.freq_range) =>
        /\ raised = ""
        /\ Len(bank.coefficients)
              = Len(Grid.exact) - Cardinality(Above(Grid))
        /\ \A b \in 1..Len(bank.coefficients) :
              LET band == bank.coefficients[b]
              IN  /\ Sections(band) = args.order
                  /\ band.identity >= 0
                  /\ band.btype = "bandpass" =>
                        band.sections = args.order /\ band.identity = 0
                  /\ band.btype = "highpass" =>
                        band.sections = (args.order + 1) \div 2

\* the edges of band i of grid g, normalized to Nyquist = 1 (Lg 0)
LowerEdge(g, i) == g.f_crit[1][i] - Nyquist
UpperEdge(g, i) == g.f_crit[2][i] - Nyquist

\* the bands of grid g by the rule that applies to them
Dropped(g) == {i \in 1..Len(g.exact) : LowerEdge(g, i) >= 0}
HighPassed(g) ==
    {i \in 1..Len(g.exact) : LowerEdge(g, i) < 0 /\ UpperEdge(g, i) > 0}
BandPassed(g) ==
    {i \in 1..Len(g.exact) : LowerEdge(g, i) < 0 /\ UpperEdge(g, i) <= 0}

\* the diagnostics of the bands of rule set S up to band last, in band order
Diagnostics(g, S, last) ==
    LET T == {i \in S : i <= last}
    IN  [k \in 1..Cardinality(T) |->
            HighpassWarning(g.f_crit[2]
                [CHOOSE i \in T : Cardinality({j \in T : j < i}) = k - 1])]

\* C13: in the energy-preserving design every band of the grid falls under
\* exactly one rule.  The bands with normalized lower edge >= 1 are dropped,
\* with one diagnostic when there is any; a band with lower edge < 1 and
\* upper edge > 1 is designed as a high-pass at its lower edge, with its own
\* diagnostic; every other band is designed as a band-pass at both edges,
\* without a diagnostic.  (The band-pass design is refused by butter when the
\* upper edge is exactly 1: the design then ends at that band.)
C13_OneRulePerBand ==
    op = "FractionalOctaveBands" /\ WellFormed(args.freq_range) =>
        LET g == Grid
            kept == HighPassed(g) \cup BandPassed(g)
            refused == {i \in BandPassed(g) : UpperEdge(g, i) = 0}
            skip == IF Dropped(g) # {} THEN <<SkipWarning>> ELSE <<>>
        IN  /\ Dropped(g) \cap kept = {}
            /\ HighPassed(g) \cap BandPassed(g) = {}
            /\ Dropped(g) \cup kept = 1..Len(g.exact)
            /\ raised # "" <=> refused # {}
            /\ raised = "" =>
                  /\ Len(bank.coefficients) = Cardinality(kept)
                  /\ kept = 1..Cardinality(kept)
                  /\ warned = skip \o Diagnostics(g, HighPassed(g),
                                                  Len(g.exact))
                  /\ \A i \in HighPassed(g) :
                        /\ bank.coefficients[i].btype = "highpass"
                        /\ bank.coefficients[i].Wn = <<LowerEdge(g, i)>>
                  /\ \A i \in BandPassed(g) :
                        /\ bank.coefficients[i].btype = "bandpass"
                        /\ bank.coefficients[i].Wn
                              = <<LowerEdge(g, i), UpperEdge(g, i)>>
            /\ raised # "" =>
                  /\ raised = ButterError
                  /\ warned = skip \o Diagnostics(g, HighPassed(g),
                                  CHOOSE i \in refused :
                                      \A j \in refused : i <= j)

\* octave bands at 16 kHz sampling rate: the 16 kHz band is dropped, the
\* 8 kHz band becomes a high-pass and the bands below are band-passes
C13_Witness ==
    /\ op = "FractionalOctaveBands" /\ raised = ""
    /\ Dropped(Grid) # {} /\ HighPassed(Grid) # {}
    /\ Cardinality(BandPassed(Grid)) > 1
    /\ Len(warned) = 2

\* the bands of grid g whose exact center frequency is below Nyquist
Below(g) == {i \in 1..Len(g.exact) : g.exact[i] < Nyquist}

\* C14: the reconstructing design keeps exactly the bands whose exact center
\* frequency is strictly below sampling_rate / 2, in their order, and drops
\* the others; it emits the diagnostic if and only if it drops a band; and
\* the taps it returns have one row of n_samples entries per kept band.
C14_ReconstructingKeepsBelowNyquist ==
    op = "ReconstructingFractionalOctaveBands" /\ raised = "" =>
        LET g == Grid
            kept == Below(g)
        IN  /\ Len(bank.coefficients) = Cardinality(kept)
            /\ kept = 1..Cardinality(kept)
            /\ \A b \in 1..Len(bank.coefficients) :
                  /\ bank.coefficients[b].f_m = g.exact[b]
                  /\ bank.coefficients[b].n_samples = args.n_samples
            /\ warned # <<>> <=> kept # 1..Len(g.exact)
            /\ warned # <<>> => warned = <<SkipWarning>>

\* half-octave bands at 16 kHz sampling rate: the band centered at 8 kHz,
\* which is Nyquist itself, is dropped and bands below it are kept
C14_Witness ==
    /\ op = "ReconstructingFractionalOctaveBands" /\ raised = ""
    /\ \E i \in 1..Len(Grid.exact) : Grid.exact[i] = Nyquist
    /\ Len(bank.coefficients) > 1
    /\ warned = <<SkipWarning>>

\* the value of constructor argument k (a key of __dict__) in args
Argument(k) == args[Field(k)]

\* the keys the class of the bank persists
Persisted ==
    IF bank.cls = "FractionalOctaveBands"
    THEN {"_num_fractions", "_freq_range", "_order", "_sampling_rate"}
    ELSE {"_num_fractions", "_freq_range", "_sampling_rate", "_overlap",
          "_slope", "_n_samples"}

\* C15: _encode of an energy-preserving bank returns exactly the four entries
\* _num_fractions, _freq_range, _order and _sampling_rate, _encode of a
\* reconstructing bank exactly the six entries _num_fractions, _freq_range,
\* _sampling_rate, _overlap, _slope and _n_samples, each with the value the
\* bank was constructed with; no coefficient, no frequency array and no
\* other field is in the dictionary.
C15_EncodeKeepsParameters ==
    op = "_encode" =>
        /\ raised = ""
        /\ other.kind = "dict"
        /\ DOMAIN other.v = Persisted
        /\ \A k \in Persisted : other.v[k] = Argument(k)
        /\ bank.cls = "FractionalOctaveBands" =>
              Cardinality(DOMAIN other.v) = 4
        /\ bank.cls = "ReconstructingFractionalOctaveBands" =>
              Cardinality(DOMAIN other.v) = 6

\* a reconstructing bank of half octaves was encoded
C15_Witness ==
    /\ op = "_encode" /\ raised = ""
    /\ bank.cls = "ReconstructingFractionalOctaveBands"
    /\ other.v["_num_fractions"] = 2
    /\ Len(bank.coefficients) > 2

\* C16: for every energy-preserving bank b constructed from valid
\* parameters, FractionalOctaveBands._decode(b._encode()) succeeds and
\* returns a bank equal to b, each of the four parameters being the one b
\* was constructed with, and the coefficients designed from them.
C16_RoundTripEnergyPreserving ==
    op = "_decode" /\ bank.cls = "FractionalOctaveBands" =>
        /\ raised = ""
        /\ other.kind = "bank"
        /\ other.v = bank
        /\ \A k \in Persisted : instance_dict(other.v)[k] = Argument(k)

\* C17: for every reconstructing bank b constructed from valid parameters,
\* ReconstructingFractionalOctaveBands._decode(b._encode()) succeeds and
\* returns a bank equal to b, each of the six parameters being the one b was
\* constructed with, and the taps computed from them.
C17_RoundTripReconstructing ==
    op = "_decode" /\ bank.cls = "ReconstructingFractionalOctaveBands" =>
        /\ raised = ""
        /\ other.kind = "bank"
        /\ other.v = bank
        /\ \A k \in Persisted : instance_dict(other.v)[k] = Argument(k)

C19_StructuralEquality ==
    op = "__eq__" =>
        /\ other.kind = "bank" /\ other.v.cls = bank.cls
        /\ other.args = args => result = Value(TRUE)
        /\ other.args # args => result = Value(FALSE)
        /\ result.v <=> other.v = bank

\* a reconstructing bank was compared with one that differs in the overlap
\* only (so that the frequencies are the same)
C19_Witness ==
    /\ op = "__eq__"
    /\ bank.cls = "ReconstructingFractionalOctaveBands"
    /\ other.args.overlap # args.overlap
    /\ other.v.exact_frequencies = bank.exact_frequencies
    /\ result = Value(FALSE)

\* the read operations of a bank, and the change of what one of them returned
ReadOperations ==
    {"_encode", "copy", "__eq__", "__repr__", "change"}
    \cup Properties(bank)

\* C20: a constructed bank is not changed by its read operations: over a
\* call of _encode, copy, __eq__, __repr__ or a property every parameter,
\* frequency array and coefficient of the bank stays as it is, and so it does
\* when the dictionary _encode returned or the object copy returned is
\* changed afterwards.
C20_ReadsLeaveBankUnchanged ==
    [][bank # NoBank /\ op' \in ReadOperations => bank' = bank]_vars

\* the copy of a bank was given another num_fractions than the bank has
C20_Witness ==
    /\ op = "change"
    /\ other.kind = "bank"
    /\ other.v.num_fractions # bank.num_fractions
    /\ bank.num_fractions = args.num_fractions
    /\ Len(bank.coefficients) > 0

\* C25: in the energy-preserving design the dropped bands are the highest
\* bands of the grid (a suffix), at most one kept band becomes a high-pass
\* and it is the last kept one; so row i of the tensor is band i of the grid,
\* and the high-pass diagnostic names the upper cut-off frequency of the band
\* that became the high-pass.
C25_DroppedBandsAreSuffix ==
    op = "FractionalOctaveBands" /\ WellFormed(args.freq_range) =>
        LET g == Grid
            n == Len(g.exact)
            kept == (1..n) \ Dropped(g)
        IN  /\ \A i \in Dropped(g) : \A j \in i..n : j \in Dropped(g)
            /\ Cardinality(HighPassed(g)) <= 1
            /\ \A i \in HighPassed(g) : \A j \in kept : j <= i
            /\ raised = "" =>
                  /\ \A i \in 1..Len(bank.coefficients) :
                        /\ i \in kept
                        /\ bank.coefficients[i].Wn[1] = LowerEdge(g, i)
                  /\ \A i \in HighPassed(g) :
                        warned[Len(warned)] = HighpassWarning(g.f_crit[2][i])
                  /\ HighPassed(g) = {} =>
                        \A w \in 1..Len(warned) : warned[w] = SkipWarning

\* third-octave bands at 16 kHz sampling rate: bands are dropped at the top
\* and the last kept band is a high-pass
C25_Witness ==
    /\ op = "FractionalOctaveBands" /\ raised = ""
    /\ args.num_fractions = 3
    /\ Cardinality(Dropped(Grid)) > 1
    /\ HighPassed(Grid) = {Len(bank.coefficients)}
    /\ Len(bank.coefficients) > 2

IndexBelow == Round(args.num_fractions * (Lg(10000) - args.freq_range[1]),
                    Log2)
IndexAbove == Round(args.num_fractions * (args.freq_range[2] - Lg(10000)),
                    Log2)

\* C27: for num_fractions other than 1 and 3 and a valid freq_range
\* (low, high) the exact center frequencies are 1000 * 2^(i / num_fractions)
\* for every integer i from -round(num_fractions * log2(1000 / low)) to
\* round(num_fractions * log2(high / 1000)), ascending; their number is the
\* sum of the two rounded values plus 1, which is at least 1.
C27_ExactGrid ==
    op = "fractional_octave_frequencies" /\ raised = ""
    /\ args.num_fractions \notin {1, 3} =>
        /\ Len(ret.exact) = IndexBelow + IndexAbove + 1
        /\ Len(ret.exact) >= 1
        /\ \A j \in 1..Len(ret.exact) :
              ret.exact[j]
                  = Lg(10000) + Round((j - 1 - IndexBelow) * Log2,
                                      args.num_fractions)
        /\ \A j \in 1..(Len(ret.exact) - 1) : ret.exact[j] < ret.exact[j + 1]

\* quarter-octave bands for 63 Hz to 16 kHz: 8 octaves, 33 bands
C27_Witness ==
    /\ op = "fractional_octave_frequencies" /\ raised = ""
    /\ args.num_fractions = 4
    /\ args.freq_range = <<Lg(630), Lg(160000)>>
    /\ Len(ret.exact) = 33

\* half the distance of two bands, 2^(1/(2 * num_fractions)) as a factor,
\* with one unit for the rounding of the representation
HalfStep == Log2 \div (2 * args.num_fractions) + 1

\* C28 (as claimed): every exact center frequency returned for a valid
\* freq_range (low, high) lies within it, low <= f <= high, for every
\* num_fractions.
C28_AsClaimed ==
    op = "fractional_octave_frequencies" /\ raised = "" =>
        \A j \in 1..Len(ret.exact) :
            /\ args.freq_range[1] <= ret.exact[j]
            /\ ret.exact[j] <= args.freq_range[2]

\* C28 (amended): every exact center frequency returned for a valid
\* freq_range (low, high) lies within half a band distance of it,
\* low * 2^(-1/(2 * num_fractions)) <= f <= high * 2^(1/(2 * num_fractions));
\* for num_fractions 1 and 3 it is the nominal frequency of the band that
\* lies within low <= nominal <= high.
C28_WithinHalfStep ==
    op = "fractional_octave_frequencies" /\ raised = "" =>
        /\ \A j \in 1..Len(ret.exact) :
              /\ args.freq_range[1] - HalfStep <= ret.exact[j]
              /\ ret.exact[j] <= args.freq_range[2] + HalfStep
        /\ args.num_fractions \in {1, 3} =>
              /\ ~ret.nominal.none
              /\ \A j \in 1..Len(ret.nominal.v) :
                    /\ args.freq_range[1] <= ret.nominal.v[j]
                    /\ ret.nominal.v[j] <= args.freq_range[2]

\* quarter-octave bands for 20 Hz to 20 kHz: the lowest band is centered at
\* 18.6 Hz, below the range
C28_Witness ==
    /\ op = "fractional_octave_frequencies" /\ raised = ""
    /\ args.num_fractions = 4
    /\ args.freq_range = <<Lg(200), Lg(200000)>>
    /\ ret.exact[1] < Lg(200)

\* res is a with every run of equal neighbours collapsed to its first
\* element: the runs start at increasing positions f[1] = 1 < f[2] < ... of
\* a, res[k] is the element at f[k], every element of a equals the one its
\* run starts with, and neighbours in res differ
Collapsed(a, res) ==
    /\ Len(res) \in 1..Len(a)
    /\ \E f \in [1..Len(res) -> 1..Len(a)] :
          /\ f[1] = 1
          /\ \A k \in 1..(Len(res) - 1) : f[k] < f[k + 1]
          /\ \A k \in 1..Len(res) : res[k] = a[f[k]]
          /\ \A i \in 1..Len(a) : \A k \in 1..Len(res) :
                (f[k] <= i /\ (k = Len(res) \/ i < f[k + 1])) => a[i] = res[k]
    /\ \A k \in 1..(Len(res) - 1) : res[k] # res[k + 1]

\* C30: _remove_neighbored_duplicates of a non-empty list returns the list
\* with every run of equal neighbours collapsed to its first element (order
\* kept, no two neighbours of the result equal, equal elements that are not
\* neighbours all kept), and applied to its own result it returns that
\* result again.
C30_RunsCollapsed ==
    op = "_remove_neighbored_duplicates" /\ args.a # <<>> =>
        /\ raised = ""
        /\ ~result.none
        /\ Collapsed(args.a, result.v)
        /\ prev # NoOutcome => result = prev.result

\* a run of two and an equal element that is not a neighbour of the run,
\* collapsed and handed to the function once more
C30_Witness ==
    /\ op = "_remove_neighbored_duplicates"
    /\ prev # NoOutcome
    /\ prev.args.a = <<"100", "100", "500", "100">>
    /\ prev.result.v = <<"100", "500", "100">>
    /\ result.v = <<"100", "500", "100">>

\* C22: write honours its compress flag: compress=False (the default)
\* stores the objects uncompressed (ZIP_STORED), compress=True stores them
\* compressed (ZIP_DEFLATED).
C22_CompressFlagHonoured ==
    op \in {"write", "write_io_py"} /\ raised = "" =>
        result.v.compression =
            IF args.compress THEN "ZIP_DEFLATED" ELSE "ZIP_STORED"

\* the value of an entry of g in halves where it is rational (0, 1/2 or 1),
\* -1 where it is not: cos and sin of 0, pi/4 and pi/2
Exact(v) ==
    CASE v.fn = "one" -> 2
      [] v.fn = "zero" -> 0
      [] v.fn = "cos" /\ v.phi = -Scale -> 2
      [] v.fn = "cos" /\ v.phi = Scale -> 0
      [] v.fn = "sin" /\ v.phi = -Scale -> 0
      [] v.fn = "sin" /\ v.phi = Scale -> 2
      [] v.fn \in {"cos", "sin"} /\ v.phi = 0 /\ v.power = 2 -> 1
      [] OTHER -> -1

\* _get_coefficients has computed the magnitude responses
Designed == op = "_get_coefficients" /\ raised = ""

\* the band boundaries: the bands after the first
Boundaries == 2..Len(result.v.k_1)

InPassBand(k) ==
    \E b \in 1..Len(result.v.g) :
        /\ Exact(result.v.g[b][k + 1]) = 2
        /\ \A c \in 1..Len(result.v.g) \ {b} :
              Exact(result.v.g[c][k + 1]) = 0

\* line k lies in one transition: two adjacent bands hold the squared
\* cosine and sine of the same angle, every other band is zero
InTransition(k) ==
    \E b \in Boundaries :
        /\ result.v.g[b - 1][k + 1].fn = "cos"
        /\ result.v.g[b][k + 1].fn = "sin"
        /\ result.v.g[b - 1][k + 1].phi = result.v.g[b][k + 1].phi
        /\ result.v.g[b - 1][k + 1].power = 2
        /\ result.v.g[b][k + 1].power = 2
        /\ \A c \in 1..Len(result.v.g) \ {b - 1, b} :
              Exact(result.v.g[c][k + 1]) = 0

\* C23: after the loop every line 0..n_bins-1 lies in the flat pass-band of
\* exactly one band (1 there, 0 in every other band) or in exactly one
\* transition, where the two adjacent bands hold cos^2 and sin^2 of the same
\* angle and the others 0, so the squared masks sum to 1 at every line; the
\* first band is 1 from line 0, the last band 1 up to the last line.
C23_MasksPartition ==
    Designed /\ Len(result.v.g) > 0 =>
        /\ \A k \in 0..(result.v.n_bins - 1) :
              InPassBand(k) \/ InTransition(k)
        /\ Exact(result.v.g[1][1]) = 2
        /\ Exact(result.v.g[Len(result.v.g)][result.v.n_bins]) = 2

\* C24: for every valid parameter set and every boundary b the window
\* [k_1[b] - P[b], k_1[b] + P[b]] lies inside the lines 0..n_bins-1 and ends
\* no later than the next window starts, so no fade is truncated (no
\* exception is raised) and no fade is overwritten.
C24_WindowsFit ==
    op = "_get_coefficients" =>
        /\ raised = ""
        /\ \A b \in Boundaries :
              /\ 0 <= result.v.k_1[b] - result.v.P[b]
              /\ result.v.k_1[b] + result.v.P[b] <= result.v.n_bins - 1
              /\ b < Len(result.v.k_1) =>
                    result.v.k_1[b] + result.v.P[b]
                        <= result.v.k_1[b + 1] - result.v.P[b + 1]

\* the linear ramp p / P of boundary b
Linear(b) ==
    [i \in 1..(2 * result.v.P[b] + 1) |->
        Round((i - 1 - result.v.P[b]) * Scale, result.v.P[b])]

\* the fades of a ramp value: the entries written to band b-1 and band b
FadeOut(x) == [fn |-> "cos", phi |-> x, power |-> 1]
FadeIn(x) == [fn |-> "sin", phi |-> x, power |-> 1]

\* C29: the ramp of each transition starts over [-1, 1] and is warped by
\* phi -> sin(pi/2 phi) slope times (not at all for slope 0); for every
\* slope it keeps the end points -1 and 1, is odd about the centre of the
\* window and non-decreasing, so the fade out of band b-1 is exactly 1 at
\* the first and 0 at the last line of the window and the fade in of band b
\* exactly 0 and 1.
C29_RampWarped ==
    Designed =>
        \A b \in Boundaries :
            result.v.P[b] > 0 =>
                LET phi == result.v.phi[b]
                    n == 2 * result.v.P[b] + 1
                IN  /\ Len(phi) = n
                    /\ args.slope.v = 0 => phi = Linear(b)
                    /\ args.slope.v = 1 =>
                          \A i \in 1..n : phi[i] = sin_half_pi(Linear(b)[i])
                    /\ args.slope.v = 2 =>
                          \A i \in 1..n :
                              phi[i] = sin_half_pi(sin_half_pi(Linear(b)[i]))
                    /\ phi[1] = -Scale /\ phi[n] = Scale
                    /\ \A i \in 1..n : phi[n + 1 - i] = -phi[i]
                    /\ \A i \in 1..(n - 1) : phi[i] <= phi[i + 1]
                    /\ Exact(FadeOut(phi[1])) = 2
                    /\ Exact(FadeOut(phi[n])) = 0
                    /\ Exact(FadeIn(phi[1])) = 0
                    /\ Exact(FadeIn(phi[n])) = 2

\* a ramp of nine values warped twice, strictly inside (-1, 1) between its
\* end points
C29_Witness ==
    /\ Designed
    /\ args.slope.v = 2
    /\ \E b \in Boundaries :
          /\ result.v.P[b] = 4
          /\ result.v.phi[b][2] > -Scale
          /\ result.v.phi[b][2] < result.v.phi[b][3]

====
